---- MODULE Spec2Model ----
(***************************************************************************)
(* Model of package config (olebedev/config): dotted-path access to a      *)
(* configuration tree, typed accessors, per-environment fallback.          *)
(*                                                                         *)
(* Go strings are sequences of one-character strings, so that              *)
(* strings.Split, strings.Join, strconv.ParseInt and fmt.Sprint are        *)
(* computed character by character.  Go maps and slices are reference      *)
(* values: a map or list node holds the address of an object of the heap,  *)
(* and two nodes with the same address share the object.                   *)
(***************************************************************************)
EXTENDS Integers, Sequences, FiniteSets, TLC

VARIABLES heap, cfg, env, sub, mref, last, nmut

vars == <<heap, cfg, env, sub, mref, last, nmut>>

(***************************************************************************)
(* Bounds of the model.                                                    *)
(***************************************************************************)
MaxSegs == 3

MaxEnvSegs == 2

MaxSubSegs == 2

MaxDigits == 2

MaxDp == 7

MaxSets == 2

MaxMut == 2

MaxEntries == 2

(***************************************************************************)
(* Strings.                                                                *)
(***************************************************************************)
Dot == "."

Digits == <<"0", "1", "2", "3", "4", "5", "6", "7", "8", "9">>

IsDigit(c) == \E i \in 1..10 : Digits[i] = c

DigitVal(c) == (CHOOSE i \in 1..10 : Digits[i] = c) - 1

DigitChar(n) == Digits[n + 1]

\* strings.Split(path, "."): cur is the segment being read, acc the segments read.
RECURSIVE SplitFrom(_, _, _, _)
SplitFrom(s, i, cur, acc) ==
    IF i > Len(s) THEN Append(acc, cur)
    ELSE IF s[i] = Dot THEN SplitFrom(s, i + 1, <<>>, Append(acc, cur))
    ELSE SplitFrom(s, i + 1, Append(cur, s[i]), acc)

Split(s) == SplitFrom(s, 1, <<>>, <<>>)

\* strings.Join(parts, ".")
RECURSIVE Join(_)
Join(parts) ==
    IF Len(parts) = 0 THEN <<>>
    ELSE IF Len(parts) = 1 THEN parts[1]
    ELSE parts[1] \o <<Dot>> \o Join(Tail(parts))

\* The value of a run of decimal digits.
RECURSIVE DigitsVal(_, _)
DigitsVal(s, acc) ==
    IF Len(s) = 0 THEN acc ELSE DigitsVal(Tail(s), acc * 10 + DigitVal(s[1]))

\* strconv.ParseInt(s, 10, 0): an optional sign, then one or more digits.
\* The range error needs 19 digits or more, longer than any string here.
ParseInt(s) ==
    LET signed == Len(s) > 0 /\ s[1] \in {"+", "-"}
        body   == IF signed THEN Tail(s) ELSE s
        wellformed == Len(body) > 0 /\ \A i \in 1..Len(body) : IsDigit(body[i])
        mag    == DigitsVal(body, 0)
        n      == IF signed /\ s[1] = "-" THEN 0 - mag ELSE mag
    IN  IF wellformed
        THEN [ok |-> TRUE, n |-> n]
        ELSE [ok |-> FALSE, n |-> 0]

\* The decimal digits of a natural number (fmt.Sprint of a non-negative int).
RECURSIVE NatStr(_)
NatStr(n) == IF n < 10 THEN <<DigitChar(n)>> ELSE NatStr(n \div 10) \o <<DigitChar(n % 10)>>

\* fmt.Sprint(i) for an int
SprintInt(i) == IF i < 0 THEN <<"-">> \o NatStr(0 - i) ELSE NatStr(i)

(***************************************************************************)
(* float64.  A float is identified by the shortest decimal digits that     *)
(* round-trip it, as strconv computes them: value = 0.d1..dn * 10^dp with  *)
(* d1 # 0 and dn # 0; zero has no digits and dp = 0.  This is exact for    *)
(* the values of at most 15 significant digits the model uses.             *)
(***************************************************************************)
Flt(neg, d, dp) == [neg |-> neg, d |-> d, dp |-> dp]

\* The digits of s without its leading zeros, and how many were removed.
RECURSIVE StripLeading(_, _)
StripLeading(d, k) ==
    IF Len(d) > 0 /\ d[1] = 0 THEN StripLeading(Tail(d), k + 1) ELSE [d |-> d, k |-> k]

RECURSIVE StripTrailing(_)
StripTrailing(d) ==
    IF Len(d) > 0 /\ d[Len(d)] = 0 THEN StripTrailing(SubSeq(d, 1, Len(d) - 1)) ELSE d

\* The float with the decimal digits d and the decimal point after dp of them.
MkFloat(neg, d, dp) ==
    LET l == StripLeading(d, 0)
        t == StripTrailing(l.d)
    IN  IF Len(t) = 0 THEN Flt(neg, <<>>, 0) ELSE Flt(neg, t, dp - l.k)

RECURSIVE NatDigits(_)
NatDigits(n) == IF n < 10 THEN <<n>> ELSE Append(NatDigits(n \div 10), n % 10)

\* float64(n) for an int n
FloatOfInt(n) ==
    LET m == IF n < 0 THEN 0 - n ELSE n
    IN  MkFloat(n < 0, NatDigits(m), Len(NatDigits(m)))

RECURSIVE IntDigitsVal(_, _)
IntDigitsVal(d, acc) == IF Len(d) = 0 THEN acc ELSE IntDigitsVal(Tail(d), acc * 10 + d[1])

\* int(f): truncation toward zero
TruncInt(f) ==
    LET nd  == Len(f.d)
        ip  == IF f.dp <= 0 THEN <<>>
               ELSE [i \in 1..f.dp |-> IF i <= nd THEN f.d[i] ELSE 0]
        mag == IntDigitsVal(ip, 0)
    IN  IF f.neg THEN 0 - mag ELSE mag

\* strconv's %e: d.ddde+XX with prec digits after the point
fmtE(f, prec) ==
    LET nd    == Len(f.d)
        first == IF nd # 0 THEN DigitChar(f.d[1]) ELSE "0"
        more  == IF prec > 0
                 THEN <<Dot>> \o [i \in 1..prec |->
                          IF i + 1 <= nd THEN DigitChar(f.d[i + 1]) ELSE "0"]
                 ELSE <<>>
        e     == IF nd = 0 THEN 0 ELSE f.dp - 1
        esign == IF e < 0 THEN "-" ELSE "+"
        eabs  == IF e < 0 THEN 0 - e ELSE e
        edigs == IF eabs < 10 THEN <<"0", DigitChar(eabs)>> ELSE NatStr(eabs)
    IN  (IF f.neg THEN <<"-">> ELSE <<>>) \o <<first>> \o more \o <<"e", esign>> \o edigs

\* strconv's %f with prec digits after the point
fmtF(f, prec) ==
    LET nd   == Len(f.d)
        ip   == IF f.dp > 0
                THEN [i \in 1..f.dp |-> IF i <= nd THEN DigitChar(f.d[i]) ELSE "0"]
                ELSE <<"0">>
        frac == IF prec > 0
                THEN <<Dot>> \o [i \in 1..prec |->
                         IF f.dp + i >= 1 /\ f.dp + i <= nd
                         THEN DigitChar(f.d[f.dp + i]) ELSE "0"]
                ELSE <<>>
    IN  (IF f.neg THEN <<"-">> ELSE <<>>) \o ip \o frac

\* fmt.Sprint(f) for a float64: %v is %g with the shortest precision, which
\* switches to %e when the exponent is below -4 or at least 6.
SprintFloat(f) ==
    LET nd  == Len(f.d)
        exp == f.dp - 1
    IN  IF exp < 0 - 4 \/ exp >= 6
        THEN fmtE(f, nd - 1)
        ELSE fmtF(f, IF nd - f.dp > 0 THEN nd - f.dp ELSE 0)

\* strconv.ParseFloat(s, 64) on decimal literals: an optional sign, digits
\* with at most one point and at least one digit.  Exponents, hexadecimal
\* literals, "inf" and "nan" do not occur in the strings of the model.
ParseFloat(s) ==
    LET signed == Len(s) > 0 /\ s[1] \in {"+", "-"}
        body   == IF signed THEN Tail(s) ELSE s
        dots   == {i \in 1..Len(body) : body[i] = Dot}
        wellformed == /\ Cardinality(dots) <= 1
                      /\ \A i \in 1..Len(body) : body[i] = Dot \/ IsDigit(body[i])
                      /\ \E i \in 1..Len(body) : IsDigit(body[i])
        p      == IF dots = {} THEN Len(body) + 1 ELSE CHOOSE i \in dots : TRUE
        ds     == SubSeq(body, 1, p - 1) \o SubSeq(body, p + 1, Len(body))
    IN  IF wellformed
        THEN [ok |-> TRUE,
              f |-> MkFloat(signed /\ s[1] = "-", [i \in 1..Len(ds) |-> DigitVal(ds[i])], p - 1)]
        ELSE [ok |-> FALSE, f |-> Flt(FALSE, <<>>, 0)]

\* strconv.ParseBool(s)
ParseBool(s) ==
    IF s \in {<<"1">>, <<"t">>, <<"T">>, <<"T", "R", "U", "E">>,
              <<"t", "r", "u", "e">>, <<"T", "r", "u", "e">>}
    THEN [ok |-> TRUE, b |-> TRUE]
    ELSE IF s \in {<<"0">>, <<"f">>, <<"F">>, <<"F", "A", "L", "S", "E">>,
                   <<"f", "a", "l", "s", "e">>, <<"F", "a", "l", "s", "e">>}
    THEN [ok |-> TRUE, b |-> FALSE]
    ELSE [ok |-> FALSE, b |-> FALSE]

\* fmt.Sprint(b) for a bool
SprintBool(b) == IF b THEN <<"t", "r", "u", "e">> ELSE <<"f", "a", "l", "s", "e">>

(***************************************************************************)
(* Values (interface{}) and the heap.                                      *)
(***************************************************************************)
Nil == [k |-> "nil"]

BoolV(b) == [k |-> "bool", b |-> b]

FloatV(f) == [k |-> "float64", f |-> f]

IntV(i) == [k |-> "int", i |-> i]

StrV(s) == [k |-> "string", s |-> s]

\* A slice or a map is a reference to the object at address a of the heap.
\* Address 0 is a freshly made empty object that nothing else refers to.
ListV(a) == [k |-> "list", a |-> a]

MapV(a) == [k |-> "map", a |-> a]

EmptyMap == [x \in {} |-> Nil]

MapObj(m) == [t |-> "map", m |-> m]

ListObj(l) == [t |-> "list", l |-> l]

ListAt(h, a) == IF a = 0 THEN <<>> ELSE h[a].l

MapAt(h, a) == IF a = 0 THEN EmptyMap ELSE h[a].m

\* %T of a value
TypeName(n) ==
    CASE n.k = "list" -> "[]interface {}"
      [] n.k = "map" -> "map[string]interface {}"
      [] n.k = "nil" -> "<nil>"
      [] OTHER -> n.k

(***************************************************************************)
(* Fetching.                                                               *)
(***************************************************************************)
Ok(n) == [kind |-> "ok", node |-> n]

\* A run-time panic of the call (index out of range).
Panic == [kind |-> "panic"]

InvalidPath(path) == [kind |-> "InvalidPath", path |-> path]

\* NotFound with the failing segment counted as found.
NotFoundShifted(parts, pos) ==
    [kind     |-> "NotFound",
     path     |-> Join(parts),
     found    |-> Join(SubSeq(parts, 1, pos + 1)),
     notfound |-> Join(SubSeq(parts, pos + 2, Len(parts)))]

\* The error of get: the path, the part found and the part not found.
NotFound(parts, pos) ==
    [kind     |-> "NotFound",
     path     |-> Join(parts),
     found    |-> Join(SubSeq(parts, 1, pos)),
     notfound |-> Join(SubSeq(parts, pos + 1, Len(parts)))]

\* IndexList counting from the end of the list.
IndexListReversed(l, idx) == IF idx < 0 THEN Panic ELSE Ok(l[Len(l) - idx])

\* The element cfg[idx] of a list; an index below zero panics.
IndexList(l, idx) == IF idx < 0 THEN Panic ELSE Ok(l[idx + 1])

\* get(cfg, parts, pos); pos counts from 0 as in the source.
RECURSIVE get(_, _, _, _)
get(h, n, parts, pos) ==
    IF pos >= Len(parts) THEN Ok(n)
    ELSE IF n.k = "list"
    THEN LET r == ParseInt(parts[pos + 1])
             l == ListAt(h, n.a)
         IN  IF r.ok /\ r.n < Len(l)
             THEN LET e == IndexList(l, r.n)
                  IN  IF e.kind = "ok" THEN get(h, e.node, parts, pos + 1) ELSE e
             ELSE NotFound(parts, pos)
    ELSE IF n.k = "map"
    THEN LET m == MapAt(h, n.a)
         IN  IF parts[pos + 1] \in DOMAIN m
             THEN get(h, m[parts[pos + 1]], parts, pos + 1)
             ELSE NotFound(parts, pos)
    ELSE NotFound(parts, pos)

\* NormalizePath without the tolerance for a leading empty segment.
RECURSIVE NormalizePathKeepFirst(_, _, _)
NormalizePathKeepFirst(all, k, parts) ==
    IF k > Len(all) THEN [ok |-> TRUE, parts |-> parts]
    ELSE IF all[k] = <<>> THEN [ok |-> (Len(all) = 1), parts |-> <<>>]
    ELSE NormalizePathKeepFirst(all, k + 1, parts)

\* The loop of Get and of Set over the segments of the split path: the
\* first segment is dropped when empty, an empty one anywhere else is an
\* error.  all is the slice ranged over, parts the slice kept.
RECURSIVE NormalizePath(_, _, _)
NormalizePath(all, k, parts) ==
    IF k > Len(all) THEN [ok |-> TRUE, parts |-> parts]
    ELSE IF all[k] = <<>>
    THEN IF k = 1 THEN NormalizePath(all, k + 1, Tail(parts))
         ELSE [ok |-> FALSE, parts |-> parts]
    ELSE NormalizePath(all, k + 1, parts)

\* Get starting get at position 1.
GetSkipFirst(h, n, path) ==
    LET np == NormalizePath(Split(path), 1, Split(path))
    IN  IF np.ok THEN get(h, n, np.parts, 1) ELSE InvalidPath(path)

\* Get(cfg, path)
Get(h, n, path) ==
    LET np == NormalizePath(Split(path), 1, Split(path))
    IN  IF np.ok THEN get(h, n, np.parts, 0) ELSE InvalidPath(path)

typeMismatch(expected, got) ==
    [kind |-> "TypeMismatch", expected |-> expected, got |-> TypeName(got)]

(***************************************************************************)
(* Typed accessors of Config: the switch on the node found.                *)
(***************************************************************************)
BoolOf(n) ==
    IF n.k = "bool" THEN Ok(n)
    ELSE IF n.k = "string" /\ ParseBool(n.s).ok THEN Ok(BoolV(ParseBool(n.s).b))
    ELSE typeMismatch("bool", n)

Float64Of(n) ==
    IF n.k = "float64" THEN Ok(n)
    ELSE IF n.k = "int" THEN Ok(FloatV(FloatOfInt(n.i)))
    ELSE IF n.k = "string" /\ ParseFloat(n.s).ok THEN Ok(FloatV(ParseFloat(n.s).f))
    ELSE typeMismatch("float64", n)

\* IntOf without the comparison of the two texts.
IntOfTruncating(n) ==
    IF n.k = "float64" THEN Ok(IntV(TruncInt(n.f)))
    ELSE IF n.k = "int" THEN Ok(n)
    ELSE IF n.k = "string" /\ ParseInt(n.s).ok THEN Ok(IntV(ParseInt(n.s).n))
    ELSE typeMismatch("int", n)

IntOf(n) ==
    IF n.k = "float64" /\ SprintInt(TruncInt(n.f)) = SprintFloat(n.f)
    THEN Ok(IntV(TruncInt(n.f)))
    ELSE IF n.k = "int" THEN Ok(n)
    ELSE IF n.k = "string" /\ ParseInt(n.s).ok THEN Ok(IntV(ParseInt(n.s).n))
    ELSE typeMismatch("int", n)

ListOf(n) == IF n.k = "list" THEN Ok(n) ELSE typeMismatch("[]interface{}", n)

MapOf(n) == IF n.k = "map" THEN Ok(n) ELSE typeMismatch("map[string]interface{}", n)

StringOf(n) ==
    IF n.k = "bool" THEN Ok(StrV(SprintBool(n.b)))
    ELSE IF n.k = "float64" THEN Ok(StrV(SprintFloat(n.f)))
    ELSE IF n.k = "int" THEN Ok(StrV(SprintInt(n.i)))
    ELSE IF n.k = "string" THEN Ok(n)
    ELSE typeMismatch("string", n)

\* The accessors: an error of Get is returned as it is.
ConfigBool(h, root, path) ==
    LET r == Get(h, root, path) IN IF r.kind = "ok" THEN BoolOf(r.node) ELSE r

ConfigFloat64(h, root, path) ==
    LET r == Get(h, root, path) IN IF r.kind = "ok" THEN Float64Of(r.node) ELSE r

ConfigInt(h, root, path) ==
    LET r == Get(h, root, path) IN IF r.kind = "ok" THEN IntOf(r.node) ELSE r

ConfigList(h, root, path) ==
    LET r == Get(h, root, path) IN IF r.kind = "ok" THEN ListOf(r.node) ELSE r

ConfigMap(h, root, path) ==
    LET r == Get(h, root, path) IN IF r.kind = "ok" THEN MapOf(r.node) ELSE r

ConfigString(h, root, path) ==
    LET r == Get(h, root, path) IN IF r.kind = "ok" THEN StringOf(r.node) ELSE r

\* Config.Get around a copy of a map node.
NewConfigCopy(h, n) ==
    IF n.k = "map" /\ n.a # 0
    THEN [heap |-> Append(h, h[n.a]), Root |-> MapV(Len(h) + 1)]
    ELSE [heap |-> h, Root |-> n]

\* Config.Get that leaves Root unset.
NewConfigEmpty(h, n) == [heap |-> h, Root |-> Nil]

\* Config.Get: &Config{Root: n}, a new Config around the node found.  The
\* node is not copied, the heap is left as it is.
NewConfig(h, n) == [heap |-> h, Root |-> n]

(***************************************************************************)
(* EnvConfig.                                                              *)
(***************************************************************************)
EnvPath(e, path) == e \o <<Dot>> \o path

\* OrElse preferring the bare path.
OrElseBareFirst(first, second) ==
    IF second.kind = "ok" \/ second.kind = "panic" THEN second ELSE first

\* OrElse that falls back only when the first path is missing.
OrElseOnlyIfMissing(first, second) ==
    IF first.kind \in {"NotFound", "InvalidPath"} THEN second ELSE first

\* val, err := first; if err != nil { val, err = second }.  A panic of the
\* first call ends the accessor.
OrElse(first, second) ==
    IF first.kind = "ok" \/ first.kind = "panic" THEN first ELSE second

EnvBool(h, root, e, path) ==
    OrElse(ConfigBool(h, root, EnvPath(e, path)), ConfigBool(h, root, path))

EnvFloat64(h, root, e, path) ==
    OrElse(ConfigFloat64(h, root, EnvPath(e, path)), ConfigFloat64(h, root, path))

EnvInt(h, root, e, path) ==
    OrElse(ConfigInt(h, root, EnvPath(e, path)), ConfigInt(h, root, path))

EnvList(h, root, e, path) ==
    OrElse(ConfigList(h, root, EnvPath(e, path)), ConfigList(h, root, path))

EnvMap(h, root, e, path) ==
    OrElse(ConfigMap(h, root, EnvPath(e, path)), ConfigMap(h, root, path))

EnvString(h, root, e, path) ==
    OrElse(ConfigString(h, root, EnvPath(e, path)), ConfigString(h, root, path))

\* if err == nil { return value }; for _, def := range defaults { return def };
\* return zero
OrDefault(r, defaults, zero) ==
    IF r.kind = "ok" \/ r.kind = "panic" THEN r
    ELSE IF Len(defaults) > 0 THEN Ok(defaults[1])
    ELSE Ok(zero)

UBool(h, root, e, path, defaults) ==
    OrDefault(EnvBool(h, root, e, path), defaults, BoolV(FALSE))

UFloat64(h, root, e, path, defaults) ==
    OrDefault(EnvFloat64(h, root, e, path), defaults, FloatV(FloatOfInt(0)))

UInt(h, root, e, path, defaults) ==
    OrDefault(EnvInt(h, root, e, path), defaults, IntV(0))

UList(h, root, e, path, defaults) ==
    OrDefault(EnvList(h, root, e, path), defaults, ListV(0))

UMap(h, root, e, path, defaults) ==
    OrDefault(EnvMap(h, root, e, path), defaults, MapV(0))

UString(h, root, e, path, defaults) ==
    OrDefault(EnvString(h, root, e, path), defaults, StrV(<<>>))

(***************************************************************************)
(* Mutation.                                                               *)
(***************************************************************************)
\* m[key] = v on the map object at address a
AssignKey(h, a, key, v) ==
    [h EXCEPT ![a] = MapObj((key :> v) @@ h[a].m)]

\* l[idx] = v on the list object at address a
AssignIndex(h, a, idx, v) ==
    [h EXCEPT ![a] = ListObj([h[a].l EXCEPT ![idx + 1] = v])]

UnsupportedValue == [kind |-> "UnsupportedValue"]

\* The Normalizer on the value given to Set: a scalar is stored as it is.
SetNormalize(v) ==
    IF v.k \in {"bool", "float64", "string"} THEN Ok(v) ELSE UnsupportedValue

\* The walk of Set from node n: a missing key of a Map is created holding
\* an empty Map, a List is never extended, the last segment's slot gets v.
RECURSIVE SetWalk(_, _, _, _, _)
SetWalk(h, n, parts, pos, v) ==
    LET seg    == parts[pos + 1]
        isLast == pos + 1 = Len(parts)
        fail   == [res |-> NotFound(parts, pos), heap |-> h]
    IN  IF n.k = "map"
        THEN LET m == h[n.a].m
             IN  IF isLast THEN [res |-> Ok(v), heap |-> AssignKey(h, n.a, seg, v)]
                 ELSE IF seg \in DOMAIN m THEN SetWalk(h, m[seg], parts, pos + 1, v)
                 ELSE LET new == Len(h) + 1
                          h1  == Append(AssignKey(h, n.a, seg, MapV(new)), MapObj(EmptyMap))
                      IN  SetWalk(h1, MapV(new), parts, pos + 1, v)
        ELSE IF n.k = "list"
        THEN LET r == ParseInt(seg)
                 l == h[n.a].l
             IN  IF r.ok /\ r.n >= 0 /\ r.n < Len(l)
                 THEN IF isLast THEN [res |-> Ok(v), heap |-> AssignIndex(h, n.a, r.n, v)]
                      ELSE SetWalk(h, l[r.n + 1], parts, pos + 1, v)
                 ELSE fail
        ELSE fail

\* Set(cfg, path, value); a failed Set leaves the tree as it was.  The paths
\* written have at least one segment.
Set(h, root, path, v) ==
    LET np == NormalizePath(Split(path), 1, Split(path))
        nv == SetNormalize(v)
        w  == SetWalk(h, root, np.parts, 0, nv.node)
    IN  IF ~np.ok THEN [res |-> InvalidPath(path), heap |-> h]
        ELSE IF nv.kind # "ok" THEN [res |-> nv, heap |-> h]
        ELSE IF w.res.kind = "ok" THEN w ELSE [res |-> w.res, heap |-> h]

(***************************************************************************)
(* Inputs.                                                                 *)
(***************************************************************************)
\* The dotted paths of at most n segments taken from S.
PathsOver(S, n) == {Join(ss) : ss \in UNION {[1..k -> S] : k \in 1..n}}

sA == <<"a">>

sB == <<"b">>

sX == <<"x">>

sY == <<"y">>

sZ == <<"z">>

sN == <<"n">>

sL == <<"l">>

sM == <<"m">>

sT == <<"t">>

sDev == <<"d", "e", "v">>

sProd == <<"p", "r", "o", "d">>

sHost == <<"h", "o", "s", "t">>

Num(n) == FloatV(FloatOfInt(n))

\* {"a": {"b": [10, 20, 30]}, "1": true}
DocAB ==
    [heap |-> << MapObj((sA :> MapV(2)) @@ (<<"1">> :> BoolV(TRUE))),
                 MapObj(sB :> ListV(3)),
                 ListObj(<<Num(10), Num(20), Num(30)>>) >>,
     root |-> MapV(1)]

\* [{"a": 4.5}, "b", [true]]
DocList ==
    [heap |-> << ListObj(<<MapV(2), StrV(sB), ListV(3)>>),
                 MapObj(sA :> FloatV(Flt(FALSE, <<4, 5>>, 1))),
                 ListObj(<<BoolV(TRUE)>>) >>,
     root |-> ListV(1)]

\* the document of a single scalar
DocScalar == [heap |-> <<>>, root |-> StrV(sA)]

\* {"dev": {"host": "h1"}, "host": "h2"}
DocHost ==
    [heap |-> << MapObj((sDev :> MapV(2)) @@ (sHost :> StrV(<<"h", "2">>))),
                 MapObj(sHost :> StrV(<<"h", "1">>)) >>,
     root |-> MapV(1)]

\* {"dev": {"n": "abc", "l": [11, "t"], "m": {"n": 1.5}},
\*  "n": 2, "t": true, "l": [20], "m": {}}
DocEnv ==
    [heap |-> << MapObj((sDev :> MapV(2)) @@ (sN :> IntV(2)) @@ (sT :> BoolV(TRUE))
                        @@ (sL :> ListV(5)) @@ (sM :> MapV(6))),
                 MapObj((sN :> StrV(<<"a", "b", "c">>)) @@ (sL :> ListV(3)) @@ (sM :> MapV(4))),
                 ListObj(<<IntV(11), StrV(sT)>>),
                 MapObj(sN :> FloatV(Flt(FALSE, <<1, 5>>, 1))),
                 ListObj(<<Num(20)>>),
                 MapObj(EmptyMap) >>,
     root |-> MapV(1)]

\* {}
DocEmpty == [heap |-> <<MapObj(EmptyMap)>>, root |-> MapV(1)]

\* {"x": {"y": 1}, "z": [7]}
DocXY ==
    [heap |-> << MapObj((sX :> MapV(2)) @@ (sZ :> ListV(3))),
                 MapObj(sY :> Num(1)),
                 ListObj(<<Num(7)>>) >>,
     root |-> MapV(1)]

ResolveDocs == {DocAB, DocList, DocScalar}

ResolveSegs == {<<>>, sA, sB, <<"0">>, <<"1">>, <<"3">>, <<"5">>, <<"-", "1">>}

ResolvePaths == PathsOver(ResolveSegs, MaxSegs)

SubPaths == PathsOver(ResolveSegs, MaxSubSegs)

EnvDocs == {DocHost, DocEnv}

Envs == {sDev, sProd}

EnvSegs == {<<>>, sHost, sN, sL, sM, sT, <<"0">>, <<"-", "1">>}

EnvPaths == PathsOver(EnvSegs, MaxEnvSegs)

SetDocs == {DocEmpty, DocXY}

SetSegs == {sX, sY, sZ}

SetReadPaths == PathsOver(SetSegs \cup {<<>>}, MaxSegs)

\* The paths written: into missing structure, over existing structure,
\* into a list, and malformed ones.
SetPaths ==
    {Join(<<sX>>), Join(<<sX, sY>>), Join(<<sX, sY, sZ>>), Join(<<sY, sZ>>),
     Join(<<<<>>, sZ>>), Join(<<sZ, <<"0">>>>), Join(<<sZ, <<"1">>>>),
     Join(<<sZ, <<"-", "1">>>>), Join(<<sX, <<>>, sY>>), Join(<<sX, sY, sZ, sX>>)}

SetValues == {Num(5), Nil}

AliasPaths == {<<>>, Join(<<sX>>), Join(<<sX, sY>>), Join(<<sZ>>), Join(<<sY>>)}

AliasKeys == {sY, sZ}

AliasValues == {Num(5), StrV(sA)}

AliasSetPaths == {Join(<<sX>>), Join(<<sX, sY>>)}

\* every float of at most MaxDigits digits and a decimal point within MaxDp
\* and 42.5
Floats ==
    {MkFloat(neg, d, dp) : neg \in BOOLEAN,
                           d \in UNION {[1..k -> 0..9] : k \in 0..MaxDigits},
                           dp \in (0 - MaxDp)..MaxDp}
    \cup {Flt(FALSE, <<4, 2, 5>>, 2)}

NumPaths == {<<>>, sA}

\* The fallbacks given to an or-default accessor: none, one or two of V.
DefaultSeqs(V) ==
    {<<>>} \cup {<<v>> : v \in V} \cup {<<v, w>> : v \in V, w \in V}

ListsOf(h) == {ListV(0)} \cup {ListV(a) : a \in {b \in DOMAIN h : h[b].t = "list"}}

MapsOf(h) == {MapV(0)} \cup {MapV(a) : a \in {b \in DOMAIN h : h[b].t = "map"}}

(***************************************************************************)
(* State.  heap and cfg are the tree and Config.Root; env is EnvConfig.Env;*)
(* sub is the Config a caller got from Config.Get and mref the map it got  *)
(* from Config.Map, each with the path asked and whether every update      *)
(* since went through that very object; last is the last call, its         *)
(* arguments and what it returned; nmut counts the updates.                *)
(***************************************************************************)
NoHandle == [ok |-> FALSE, node |-> Nil, path |-> <<>>, clean |-> FALSE]

Handle(n, path) == [ok |-> TRUE, node |-> n, path |-> path, clean |-> TRUE]

Rec(op, path, arg, res) == [op |-> op, path |-> path, arg |-> arg, res |-> res]

NoCall == Rec("none", <<>>, Nil, Ok(Nil))

InitDoc(d, e) ==
    /\ heap = d.heap
    /\ cfg = d.root
    /\ env = e
    /\ sub = NoHandle
    /\ mref = NoHandle
    /\ last = NoCall
    /\ nmut = 0

\* The calls that only read.  A read, and a call that failed, leaves the
\* tree as it was, so the next call is taken from the state before it: the
\* state that shows the result of a read or a failure has no successor.
ReadOps ==
    {"Get", "Sub.Get", "Config.Float64", "Config.Int", "Config.String",
     "Bool", "Float64", "Int", "List", "Map", "String",
     "UBool", "UFloat64", "UInt", "UList", "UMap", "UString"}

Idle == last.op \notin ReadOps /\ last.res.kind = "ok"

\* The inputs of the next call, drawn from S.
Ready(S) == IF Idle THEN S ELSE {}

Returns(op, path, arg, res) ==
    /\ last' = Rec(op, path, arg, res)
    /\ UNCHANGED <<heap, cfg, env, sub, mref, nmut>>

(***************************************************************************)
(* Operations.                                                             *)
(***************************************************************************)
CallGet(path) == Returns("Get", path, Nil, Get(heap, cfg, path))

\* sub, err := cfg.Get(path)
CallConfigGet(path) ==
    LET r == Get(heap, cfg, path)
        c == NewConfig(heap, r.node)
    IN  /\ IF r.kind = "ok"
           THEN heap' = c.heap /\ sub' = Handle(c.Root, path)
                /\ last' = Rec("Config.Get", path, Nil, Ok(c.Root))
           ELSE heap' = heap /\ sub' = NoHandle
                /\ last' = Rec("Config.Get", path, Nil, r)
        /\ UNCHANGED <<cfg, env, mref, nmut>>

\* sub.Get(path) on the Config got from cfg.Get(sub.path)
CallSubGet(path) ==
    LET r == Get(heap, sub.node, path)
        c == NewConfig(heap, r.node)
    IN  /\ sub.ok
        /\ IF r.kind = "ok"
           THEN heap' = c.heap /\ last' = Rec("Sub.Get", path, sub.path, Ok(c.Root))
           ELSE heap' = heap /\ last' = Rec("Sub.Get", path, sub.path, r)
        /\ UNCHANGED <<cfg, env, sub, mref, nmut>>

CallConfigFloat64(path) ==
    Returns("Config.Float64", path, Nil, ConfigFloat64(heap, cfg, path))

CallConfigInt(path) == Returns("Config.Int", path, Nil, ConfigInt(heap, cfg, path))

CallConfigString(path) ==
    Returns("Config.String", path, Nil, ConfigString(heap, cfg, path))

\* m, err := cfg.Map(path)
CallConfigMap(path) ==
    LET r == ConfigMap(heap, cfg, path)
    IN  /\ mref' = IF r.kind = "ok" THEN Handle(r.node, path) ELSE NoHandle
        /\ last' = Rec("Config.Map", path, Nil, r)
        /\ UNCHANGED <<heap, cfg, env, sub, nmut>>

CallEnvBool(path) == Returns("Bool", path, Nil, EnvBool(heap, cfg, env, path))

CallEnvFloat64(path) == Returns("Float64", path, Nil, EnvFloat64(heap, cfg, env, path))

CallEnvInt(path) == Returns("Int", path, Nil, EnvInt(heap, cfg, env, path))

CallEnvList(path) == Returns("List", path, Nil, EnvList(heap, cfg, env, path))

CallEnvMap(path) == Returns("Map", path, Nil, EnvMap(heap, cfg, env, path))

CallEnvString(path) == Returns("String", path, Nil, EnvString(heap, cfg, env, path))

CallUBool(path, defaults) ==
    Returns("UBool", path, defaults, UBool(heap, cfg, env, path, defaults))

CallUFloat64(path, defaults) ==
    Returns("UFloat64", path, defaults, UFloat64(heap, cfg, env, path, defaults))

CallUInt(path, defaults) ==
    Returns("UInt", path, defaults, UInt(heap, cfg, env, path, defaults))

CallUList(path, defaults) ==
    Returns("UList", path, defaults, UList(heap, cfg, env, path, defaults))

CallUMap(path, defaults) ==
    Returns("UMap", path, defaults, UMap(heap, cfg, env, path, defaults))

CallUString(path, defaults) ==
    Returns("UString", path, defaults, UString(heap, cfg, env, path, defaults))

\* EnvConfig.Set(path, v): Config.Set on the root
CallSet(path, v, bound) ==
    LET w == Set(heap, cfg, path, v)
    IN  /\ nmut < bound
        /\ heap' = w.heap
        /\ last' = Rec("Set", path, v, w.res)
        /\ nmut' = nmut + 1
        /\ sub' = [sub EXCEPT !.clean = FALSE]
        /\ mref' = [mref EXCEPT !.clean = FALSE]
        /\ UNCHANGED <<cfg, env>>

\* sub.Root.(map[string]interface{})[key] = v
SubAssign(key, v) ==
    /\ nmut < MaxMut
    /\ sub.ok /\ sub.node.k = "map" /\ sub.node.a # 0
    /\ heap' = AssignKey(heap, sub.node.a, key, v)
    /\ last' = Rec("Sub.Assign", key, v, Ok(v))
    /\ nmut' = nmut + 1
    /\ mref' = [mref EXCEPT !.clean = mref.clean /\ mref.node = sub.node]
    /\ UNCHANGED <<cfg, env, sub>>

\* m[key] = v on the map got from cfg.Map
MapAssign(key, v) ==
    /\ nmut < MaxMut
    /\ mref.ok /\ mref.node.a # 0
    /\ heap' = AssignKey(heap, mref.node.a, key, v)
    /\ last' = Rec("Map.Assign", key, v, Ok(v))
    /\ nmut' = nmut + 1
    /\ sub' = [sub EXCEPT !.clean = sub.clean /\ sub.node = mref.node]
    /\ UNCHANGED <<cfg, env, mref>>

(***************************************************************************)
(* Specifications.                                                         *)
(***************************************************************************)
\* Path resolution on fixed documents.
InitResolve == \E d \in ResolveDocs : InitDoc(d, <<>>)

NextResolve ==
    \/ \E path \in Ready(ResolvePaths) : CallGet(path)
    \/ \E path \in Ready(SubPaths) : CallConfigGet(path)
    \/ \E path \in Ready(SubPaths) : CallSubGet(path)

SpecResolve == InitResolve /\ [][NextResolve]_vars

\* The accessors of EnvConfig.
InitEnv == \E d \in EnvDocs : \E e \in Envs : InitDoc(d, e)

NextEnv ==
    \/ \E path \in Ready(EnvPaths) : CallEnvBool(path)
    \/ \E path \in Ready(EnvPaths) : CallEnvFloat64(path)
    \/ \E path \in Ready(EnvPaths) : CallEnvInt(path)
    \/ \E path \in Ready(EnvPaths) : CallEnvList(path)
    \/ \E path \in Ready(EnvPaths) : CallEnvMap(path)
    \/ \E path \in Ready(EnvPaths) : CallEnvString(path)
    \/ \E path \in Ready(EnvPaths) : \E ds \in DefaultSeqs({BoolV(TRUE), BoolV(FALSE)}) :
           CallUBool(path, ds)
    \/ \E path \in Ready(EnvPaths) : \E ds \in DefaultSeqs({Num(0), Num(7)}) :
           CallUFloat64(path, ds)
    \/ \E path \in Ready(EnvPaths) : \E ds \in DefaultSeqs({IntV(0), IntV(7)}) :
           CallUInt(path, ds)
    \/ \E path \in Ready(EnvPaths) : \E ds \in DefaultSeqs(ListsOf(heap)) : CallUList(path, ds)
    \/ \E path \in Ready(EnvPaths) : \E ds \in DefaultSeqs(MapsOf(heap)) : CallUMap(path, ds)
    \/ \E path \in Ready(EnvPaths) : \E ds \in DefaultSeqs({StrV(<<>>), StrV(sA)}) :
           CallUString(path, ds)

SpecEnv == InitEnv /\ [][NextEnv]_vars

\* Set and reading back.
InitSet == \E d \in SetDocs : InitDoc(d, <<>>)

NextSet ==
    \/ \E path \in Ready(SetPaths) : \E v \in SetValues : CallSet(path, v, MaxSets)
    \/ \E path \in Ready(SetReadPaths) : CallGet(path)

SpecSet == InitSet /\ [][NextSet]_vars

\* Updates through a Config or a map derived from the tree.
InitAlias == \E d \in SetDocs : InitDoc(d, <<>>)

NextAlias ==
    \/ \E path \in Ready(AliasPaths) : CallConfigGet(path)
    \/ \E path \in Ready(AliasPaths) : CallConfigMap(path)
    \/ \E key \in Ready(AliasKeys) : \E v \in AliasValues : SubAssign(key, v)
    \/ \E key \in Ready(AliasKeys) : \E v \in AliasValues : MapAssign(key, v)
    \/ \E path \in Ready(AliasSetPaths) : CallSet(path, Num(5), MaxMut)

SpecAlias == InitAlias /\ [][NextAlias]_vars

\* The accessors on a document that is a single number.
InitNum == \E f \in Floats : InitDoc([heap |-> <<>>, root |-> FloatV(f)], <<>>)

NextNum ==
    \/ \E path \in Ready(NumPaths) : CallConfigInt(path)
    \/ \E path \in Ready(NumPaths) : CallConfigFloat64(path)
    \/ \E path \in Ready(NumPaths) : CallConfigString(path)

SpecNum == InitNum /\ [][NextNum]_vars

(***************************************************************************)
(* Parsing.  A raw value is what the YAML or JSON decoder hands over: a    *)
(* scalar, nil, a []interface{}, a map[interface{}]interface{} (YAML) or a *)
(* map[string]interface{} (JSON), or a value of some other type.  A raw    *)
(* map is the sequence of its entries, keys distinct; Go ranges over a map *)
(* in no fixed order.                                                      *)
(***************************************************************************)
RawList(items) == [k |-> "rawlist", items |-> items]

RawMap(entries) == [k |-> "rawmap", entries |-> entries]

StrMap(entries) == [k |-> "strmap", entries |-> entries]

Other == [k |-> "other"]

Entry(key, val) == [key |-> key, val |-> val]

\* The nodes normalizeValue builds, before they are placed in the heap.
ListT(items) == [k |-> "list", items |-> items]

MapT(entries) == [k |-> "map", entries |-> entries]

UnsupportedMapKey(key) == [kind |-> "UnsupportedMapKey", what |-> key]

UnsupportedMapValue(v) == [kind |-> "UnsupportedMapValue", what |-> v]

UnsupportedListItem(v) == [kind |-> "UnsupportedListItem", what |-> v]

UnsupportedType(v) == [kind |-> "UnsupportedType", what |-> v.k]

Failed(outcomes) == \E o \in outcomes : o.kind # "ok"

\* The node of a call that cannot fail.
Item(outcomes) == (CHOOSE o \in outcomes : o.kind = "ok").node

\* case bool, float64, int, string: return value, nil (with the variant
\* below, an int is turned into a float64)
NormalizeScalarCoerce(v) == IF v.k = "int" THEN FloatV(FloatOfInt(v.i)) ELSE v

NormalizeScalar(v) == v

\* key, ok := k.(string) (with the variant below, an int key is printed)
KeyStringCoerce(key) ==
    IF key.k = "string" THEN [ok |-> TRUE, s |-> key.s]
    ELSE IF key.k = "int" THEN [ok |-> TRUE, s |-> SprintInt(key.i)]
    ELSE [ok |-> FALSE, s |-> <<>>]

KeyString(key) ==
    IF key.k = "string" THEN [ok |-> TRUE, s |-> key.s] ELSE [ok |-> FALSE, s |-> <<>>]

\* normalizeValue(value): the set of the results the call can return.  The
\* entries of a map are visited in any order and the first one that fails
\* ends the call, so every failing entry can be the one reported; the items
\* of a list are visited in order.
RECURSIVE normalizeValue(_)
normalizeValue(v) ==
    IF v.k = "rawmap"
    THEN LET es   == v.entries
             idx  == 1..Len(es)
             errs == {UnsupportedMapKey(es[i].key) :
                          i \in {j \in idx : ~KeyString(es[j].key).ok}}
                     \cup {UnsupportedMapValue(es[i].val) :
                          i \in {j \in idx : KeyString(es[j].key).ok
                                              /\ Failed(normalizeValue(es[j].val))}}
         IN  IF errs # {} THEN errs
             ELSE {Ok(MapT([key \in {KeyString(es[i].key).s : i \in idx} |->
                       Item(normalizeValue(
                           es[CHOOSE i \in idx : KeyString(es[i].key).s = key].val))]))}
    ELSE IF v.k = "strmap"
    THEN LET es   == v.entries
             idx  == 1..Len(es)
             errs == {UnsupportedMapValue(es[i].val) :
                          i \in {j \in idx : Failed(normalizeValue(es[j].val))}}
         IN  IF errs # {} THEN errs
             ELSE {Ok(MapT([key \in {es[i].key : i \in idx} |->
                       Item(normalizeValue(es[CHOOSE i \in idx : es[i].key = key].val))]))}
    ELSE IF v.k = "rawlist"
    THEN LET bad == {i \in 1..Len(v.items) : Failed(normalizeValue(v.items[i]))}
         IN  IF bad # {}
             THEN {UnsupportedListItem(v.items[CHOOSE i \in bad : \A j \in bad : i <= j])}
             ELSE {Ok(ListT([i \in 1..Len(v.items) |-> Item(normalizeValue(v.items[i]))]))}
    ELSE IF v.k \in {"bool", "float64", "int", "string"}
    THEN {Ok(NormalizeScalar(v))}
    ELSE {UnsupportedType(v)}

\* The keys of a map in some order.
RECURSIVE KeySeq(_)
KeySeq(S) ==
    IF S = {} THEN <<>> ELSE LET x == CHOOSE y \in S : TRUE IN <<x>> \o KeySeq(S \ {x})

\* The tree t placed in the heap h: the new heap and the node of t.
RECURSIVE Load(_, _)
RECURSIVE LoadSeq(_, _)
Load(h, t) ==
    IF t.k = "list"
    THEN LET r == LoadSeq(h, t.items)
         IN  [heap |-> Append(r.heap, ListObj(r.nodes)), node |-> ListV(Len(r.heap) + 1)]
    ELSE IF t.k = "map"
    THEN LET ks == KeySeq(DOMAIN t.entries)
             r  == LoadSeq(h, [i \in 1..Len(ks) |-> t.entries[ks[i]]])
         IN  [heap |-> Append(r.heap,
                         MapObj([key \in DOMAIN t.entries |->
                                    r.nodes[CHOOSE i \in 1..Len(ks) : ks[i] = key]])),
              node |-> MapV(Len(r.heap) + 1)]
    ELSE [heap |-> h, node |-> t]

LoadSeq(h, ts) ==
    IF Len(ts) = 0 THEN [heap |-> h, nodes |-> <<>>]
    ELSE LET a == Load(h, ts[1])
             r == LoadSeq(a.heap, Tail(ts))
         IN  [heap |-> r.heap, nodes |-> <<a.node>> \o r.nodes]

\* The sequences of at most n elements of S.
SeqsUpTo(S, n) == UNION {[1..k -> S] : k \in 0..n}

RawScalars == {BoolV(TRUE), IntV(3), FloatV(Flt(FALSE, <<2, 5>>, 1)), StrV(sA), Nil}

RawKeys == {StrV(sA), StrV(sB), IntV(1)}

DistinctKeys(es) == \A i \in 1..Len(es) : \A j \in 1..Len(es) : i # j => es[i].key # es[j].key

\* The lists and maps of at most MaxEntries children taken from S.
Containers(S) ==
    {RawList(items) : items \in SeqsUpTo(S, MaxEntries)}
    \cup {RawMap(es) : es \in {x \in SeqsUpTo({Entry(key, val) : key \in RawKeys, val \in S},
                                              MaxEntries) : DistinctKeys(x)}}
    \cup {StrMap(es) : es \in {x \in SeqsUpTo({Entry(key, val) : key \in {sA, sB}, val \in S},
                                              MaxEntries) : DistinctKeys(x)}}

\* Documents of one and of two levels; the second level has one child.
Raws ==
    RawScalars \cup {Other} \cup Containers(RawScalars)
    \cup {RawList(<<c>>) : c \in Containers(RawScalars)}
    \cup {RawMap(<<Entry(StrV(sA), c)>>) : c \in Containers(RawScalars)}
    \cup {StrMap(<<Entry(sB, c)>>) : c \in Containers(RawScalars)}

\* The documents not parsed yet.
Unparsed(S) == IF last.op = "none" THEN S ELSE {}

\* parseYaml, parseJson: the decoder's value is normalized and becomes the
\* Root of a new Config.
CallParse(raw) ==
    \E o \in normalizeValue(raw) :
        LET ld == Load(<<>>, o.node)
        IN  /\ IF o.kind = "ok"
               THEN heap' = ld.heap /\ cfg' = ld.node
                    /\ last' = Rec("Parse", <<>>, raw, Ok(ld.node))
               ELSE heap' = heap /\ cfg' = cfg
                    /\ last' = Rec("Parse", <<>>, raw, o)
            /\ UNCHANGED <<env, sub, mref, nmut>>

\* Parsing a document.
InitNorm == InitDoc([heap |-> <<>>, root |-> Nil], <<>>)

NextNorm == \E raw \in Unparsed(Raws) : CallParse(raw)

SpecNorm == InitNorm /\ [][NextNorm]_vars

(***************************************************************************)
(* Properties.                                                             *)
(***************************************************************************)
\* The segments of a path, a leading empty one left out.
Segments(path) ==
    LET all == Split(path) IN IF all[1] = <<>> THEN Tail(all) ELSE all

\* No segment is empty, a leading empty one apart.
WellFormed(path) ==
    \A i \in 1..Len(Segments(path)) : Segments(path)[i] # <<>>

\* A segment as a position in a list of length len.
IsIndex(seg, len) == ParseInt(seg).ok /\ ParseInt(seg).n >= 0 /\ ParseInt(seg).n < len

None == [ok |-> FALSE, node |-> Nil]

\* One segment applied to a node: the element, the entry, or nothing.
Step(h, n, seg) ==
    IF n.k = "list" /\ IsIndex(seg, Len(ListAt(h, n.a)))
    THEN [ok |-> TRUE, node |-> ListAt(h, n.a)[ParseInt(seg).n + 1]]
    ELSE IF n.k = "map" /\ seg \in DOMAIN MapAt(h, n.a)
    THEN [ok |-> TRUE, node |-> MapAt(h, n.a)[seg]]
    ELSE None

\* The segments applied in order from node n.
RECURSIVE Walk(_, _, _)
Walk(h, n, segs) ==
    IF Len(segs) = 0 THEN [ok |-> TRUE, node |-> n]
    ELSE LET w == Walk(h, n, SubSeq(segs, 1, Len(segs) - 1))
         IN  IF w.ok THEN Step(h, w.node, segs[Len(segs)]) ELSE None

\* C1: Get never crashes on a well-formed path: when some segment cannot be
\* applied (a list and a segment that is not an index below its length, a
\* negative one included; a map without the key; a scalar with segments
\* left), the call returns a path error and no node.
C1_PathErrorNotCrash ==
    (last.op = "Get" /\ WellFormed(last.path)
        /\ ~Walk(heap, cfg, Segments(last.path)).ok)
    => last.res.kind = "NotFound"

\* C2: Get descends segment by segment from the root, by position in a list
\* and by key in a map, and returns the node reached when the segments are
\* consumed; on {"a": {"b": [10, 20, 30]}} the path "a.b.1" yields 20.
C2_Descends ==
    /\ (last.op = "Get" /\ WellFormed(last.path)
           /\ Walk(heap, cfg, Segments(last.path)).ok)
       => last.res = Ok(Walk(heap, cfg, Segments(last.path)).node)
    /\ (last.op = "Get" /\ cfg = DocAB.root /\ heap = DocAB.heap
           /\ last.path = Join(<<sA, sB, <<"1">>>>))
       => last.res = Ok(Num(20))

C2_Witness ==
    /\ last.op = "Get" /\ heap = DocAB.heap
    /\ last.path = Join(<<sA, sB, <<"1">>>>)
    /\ last.res = Ok(Num(20))

\* C3: a leading dot is dropped, Get(root, "." + p) is Get(root, p) for
\* every non-empty well-formed p; the empty path returns the root; a path
\* with an empty segment anywhere but first is an invalid-path error
\* whatever the tree.
C3_PathSyntax ==
    last.op = "Get" =>
        /\ (Len(last.path) > 1 /\ last.path[1] = Dot /\ Tail(last.path)[1] # Dot
               /\ WellFormed(Tail(last.path)))
           => last.res = Get(heap, cfg, Tail(last.path))
        /\ last.path = <<>> => last.res = Ok(cfg)
        /\ (\E k \in 2..Len(Split(last.path)) : Split(last.path)[k] = <<>>)
           => last.res = InvalidPath(last.path)

C3_Witness ==
    /\ last.op = "Get" /\ heap = DocAB.heap
    /\ last.path = <<Dot>> \o Join(<<sA, sB>>)
    /\ last.res = Ok(ListV(3))

\* C4: the error of a failed resolution reports the requested path (the
\* dot-join of its segments), the consumed prefix and the remaining suffix:
\* the prefix is the longest one that resolves from the root, the suffix
\* starts at the first segment that could not be applied, and prefix and
\* suffix together are the requested segments.
C4_ErrorReport ==
    (last.op = "Get" /\ last.res.kind = "NotFound") =>
        LET segs == Segments(last.path)
        IN  /\ last.res.path = Join(segs)
            /\ \E j \in 0..(Len(segs) - 1) :
                   /\ last.res.found = Join(SubSeq(segs, 1, j))
                   /\ last.res.notfound = Join(SubSeq(segs, j + 1, Len(segs)))
                   /\ Walk(heap, cfg, SubSeq(segs, 1, j)).ok
                   /\ ~Walk(heap, cfg, SubSeq(segs, 1, j + 1)).ok

C4_Witness ==
    /\ last.op = "Get" /\ heap = DocAB.heap
    /\ last.path = Join(<<sA, sB, <<"5">>>>)
    /\ last.res.kind = "NotFound"
    /\ last.res.found = Join(<<sA, sB>>)
    /\ last.res.notfound = <<"5">>

EnvOps == {"Bool", "Float64", "Int", "List", "Map", "String"}

\* The switch of the accessor named op on a node.
Coerce(op, n) ==
    CASE op \in {"Bool", "UBool"} -> BoolOf(n)
      [] op \in {"Float64", "UFloat64"} -> Float64Of(n)
      [] op \in {"Int", "UInt"} -> IntOf(n)
      [] op \in {"List", "UList"} -> ListOf(n)
      [] op \in {"Map", "UMap"} -> MapOf(n)
      [] op \in {"String", "UString"} -> StringOf(n)

\* The typed lookup of one path: the node of the path, coerced.
TypedLookup(op, h, root, path) ==
    LET r == Get(h, root, path) IN IF r.kind = "ok" THEN Coerce(op, r.node) ELSE r

\* C5: a typed accessor of EnvConfig returns the value of "<Env>.<path>"
\* when that lookup succeeds and looks up the bare path only when it fails;
\* on {"dev": {"host": "h1"}, "host": "h2"} String("host") is "h1" for the
\* environment "dev" and "h2" for "prod".
C5_EnvFirst ==
    /\ last.op \in EnvOps =>
           LET e == TypedLookup(last.op, heap, cfg, EnvPath(env, last.path))
               b == TypedLookup(last.op, heap, cfg, last.path)
           IN  /\ e.kind = "ok" => last.res = e
               /\ e.kind \notin {"ok", "panic"} => last.res = b
    /\ (last.op = "String" /\ heap = DocHost.heap /\ last.path = sHost)
       => last.res = Ok(StrV(IF env = sDev THEN <<"h", "1">> ELSE <<"h", "2">>))

C5_Witness ==
    /\ last.op = "String" /\ heap = DocHost.heap /\ env = sDev
    /\ last.path = sHost
    /\ last.res = Ok(StrV(<<"h", "1">>))

HasFraction(f) == Len(f.d) > f.dp

\* C7: Int on a Number succeeds exactly when the text of the truncated
\* value is the text of the float, and then returns the truncated value;
\* every Number with a fractional part is a type mismatch.
C7_IntOnNumber ==
    (last.op = "Config.Int" /\ last.path = <<>> /\ cfg.k = "float64") =>
        /\ last.res.kind = "ok" <=> SprintInt(TruncInt(cfg.f)) = SprintFloat(cfg.f)
        /\ last.res.kind = "ok" => last.res = Ok(IntV(TruncInt(cfg.f)))
        /\ last.res.kind # "ok" => last.res = typeMismatch("int", cfg)
        /\ HasFraction(cfg.f) => last.res.kind = "TypeMismatch"
        /\ cfg.f = Flt(FALSE, <<4, 2>>, 2) => last.res = Ok(IntV(42))

C7_Witness ==
    /\ last.op = "Config.Int" /\ last.path = <<>>
    /\ cfg = FloatV(Flt(FALSE, <<4, 2, 5>>, 2))
    /\ last.res.kind = "TypeMismatch"

\* The tree below a node, without the addresses.
RECURSIVE Tree(_, _)
Tree(h, v) ==
    IF v.k = "list"
    THEN [k |-> "list",
          items |-> [i \in 1..Len(ListAt(h, v.a)) |-> Tree(h, ListAt(h, v.a)[i])]]
    ELSE IF v.k = "map"
    THEN [k |-> "map",
          entries |-> [key \in DOMAIN MapAt(h, v.a) |-> Tree(h, MapAt(h, v.a)[key])]]
    ELSE v

\* C8: for a valid path p.q, cfg.Get(p) succeeds and cfg.Get(p).Get(q) is
\* deep-equal to cfg.Get(p.q).
C8_GetComposes ==
    /\ (last.op = "Sub.Get" /\ sub.ok /\ sub.clean
           /\ Get(heap, cfg, last.arg \o <<Dot>> \o last.path).kind = "ok")
       => /\ last.res.kind = "ok"
          /\ Tree(heap, last.res.node)
               = Tree(heap, Get(heap, cfg, last.arg \o <<Dot>> \o last.path).node)
    /\ (last.op = "Config.Get"
           /\ \E q \in SubPaths : Get(heap, cfg, last.path \o <<Dot>> \o q).kind = "ok")
       => last.res.kind = "ok"

C8_Witness ==
    /\ last.op = "Sub.Get" /\ heap = DocAB.heap
    /\ last.arg = sA
    /\ last.path = Join(<<sB, <<"1">>>>)
    /\ last.res = Ok(Num(20))

\* C9: the Config got from Get(p), and the map got from Map(p), is the node
\* the tree holds at p: when it is a Map, after any updates made through it
\* p.k on the original resolves as k does on it, for every key k.
C9_SharedNode ==
    \A hd \in {sub, mref} :
        (hd.ok /\ hd.clean /\ hd.node.k = "map") =>
            \A key \in SetSegs :
                LET a == Get(heap, cfg, hd.path \o <<Dot>> \o key)
                    b == Get(heap, hd.node, key)
                IN  /\ a.kind = "ok" <=> b.kind = "ok"
                    /\ a.kind = "ok" => a.node = b.node

C9_Witness ==
    /\ last.op = "Sub.Assign" /\ nmut = 2
    /\ sub.ok /\ sub.clean /\ sub.path = sX
    /\ Get(heap, cfg, Join(<<sX, sZ>>)) = Ok(StrV(sA))
    /\ Get(heap, sub.node, sY) = Ok(Num(5))

UOps == {"UBool", "UFloat64", "UInt", "UList", "UMap", "UString"}

\* The zero value an or-default accessor returns.
Zero(op) ==
    CASE op = "UBool" -> BoolV(FALSE)
      [] op = "UFloat64" -> FloatV(Flt(FALSE, <<>>, 0))
      [] op = "UInt" -> IntV(0)
      [] op = "UList" -> ListV(0)
      [] op = "UMap" -> MapV(0)
      [] op = "UString" -> StrV(<<>>)

\* C10: an or-default accessor never fails: it returns the value of the
\* fallible accessor when that succeeds, and otherwise the first fallback
\* given or, without one, the zero value of the type.
C10_OrDefaultNeverFails ==
    last.op \in UOps =>
        LET e == TypedLookup(last.op, heap, cfg, EnvPath(env, last.path))
            b == TypedLookup(last.op, heap, cfg, last.path)
            r == IF e.kind = "ok" THEN e ELSE b
        IN  /\ last.res.kind = "ok"
            /\ r.kind = "ok" => last.res = r
            /\ r.kind # "ok" =>
                   last.res = Ok(IF Len(last.arg) > 0 THEN last.arg[1] ELSE Zero(last.op))

IsNumber(v) == v.k = "int" \/ v.k = "float64"

\* The numeric leaves of a tree, each with the segments that lead to it.
RECURSIVE NumericLeaves(_, _)
NumericLeaves(t, at) ==
    IF t.k = "list"
    THEN UNION {NumericLeaves(t.items[i], Append(at, SprintInt(i - 1))) :
                    i \in 1..Len(t.items)}
    ELSE IF t.k = "map"
    THEN UNION {NumericLeaves(t.entries[key], Append(at, key)) : key \in DOMAIN t.entries}
    ELSE IF IsNumber(t) THEN {[at |-> at, leaf |-> t]}
    ELSE {}

\* The numeric leaves of a raw value whose map keys are all strings.
RECURSIVE RawNumericLeaves(_, _)
RawNumericLeaves(v, at) ==
    IF v.k = "rawlist"
    THEN UNION {RawNumericLeaves(v.items[i], Append(at, SprintInt(i - 1))) :
                    i \in 1..Len(v.items)}
    ELSE IF v.k = "rawmap"
    THEN UNION {RawNumericLeaves(v.entries[i].val, Append(at, v.entries[i].key.s)) :
                    i \in 1..Len(v.entries)}
    ELSE IF v.k = "strmap"
    THEN UNION {RawNumericLeaves(v.entries[i].val, Append(at, v.entries[i].key)) :
                    i \in 1..Len(v.entries)}
    ELSE IF IsNumber(v) THEN {[at |-> at, leaf |-> v]}
    ELSE {}

Parsed == last.op = "Parse" /\ last.res.kind = "ok"

\* C11 as stated: in every tree the normalizer produces every numeric leaf
\* is a float64; no int is left in the tree.
C11_OnlyFloat64 ==
    Parsed => \A x \in NumericLeaves(Tree(heap, cfg), <<>>) : x.leaf.k = "float64"

\* C11: the normalizer leaves every numeric leaf as the decoder produced it:
\* an int stays an int and a float64 stays a float64, at the same place of
\* the tree, so both variants occur in the trees it produces.
C11_NumbersKept ==
    Parsed => NumericLeaves(Tree(heap, cfg), <<>>) = RawNumericLeaves(last.arg, <<>>)

C11_Witness ==
    /\ Parsed
    /\ last.arg = RawMap(<<Entry(StrV(sA), IntV(3)),
                           Entry(StrV(sB), FloatV(Flt(FALSE, <<2, 5>>, 1)))>>)
    /\ Get(heap, cfg, sA) = Ok(IntV(3))
    /\ ConfigInt(heap, cfg, sA) = Ok(IntV(3))
    /\ Get(heap, cfg, sB) = Ok(FloatV(Flt(FALSE, <<2, 5>>, 1)))

\* The keys of the maps of a raw value, at every depth.
RECURSIVE RawKeysOf(_)
RawKeysOf(v) ==
    IF v.k = "rawlist" THEN UNION {RawKeysOf(v.items[i]) : i \in 1..Len(v.items)}
    ELSE IF v.k = "rawmap"
    THEN {v.entries[i].key : i \in 1..Len(v.entries)}
         \cup UNION {RawKeysOf(v.entries[i].val) : i \in 1..Len(v.entries)}
    ELSE IF v.k = "strmap"
    THEN {StrV(v.entries[i].key) : i \in 1..Len(v.entries)}
         \cup UNION {RawKeysOf(v.entries[i].val) : i \in 1..Len(v.entries)}
    ELSE {}

\* The keys of the maps of a tree, at every depth.
RECURSIVE TreeKeysOf(_)
TreeKeysOf(t) ==
    IF t.k = "list" THEN UNION {TreeKeysOf(t.items[i]) : i \in 1..Len(t.items)}
    ELSE IF t.k = "map"
    THEN DOMAIN t.entries \cup UNION {TreeKeysOf(t.entries[key]) : key \in DOMAIN t.entries}
    ELSE {}

\* A raw value that has no canonical form: a value of no supported type, or
\* a map with a key that is not a string, anywhere in it.
RECURSIVE Unsupported(_)
Unsupported(v) ==
    IF v.k = "rawlist" THEN \E i \in 1..Len(v.items) : Unsupported(v.items[i])
    ELSE IF v.k = "rawmap"
    THEN \E i \in 1..Len(v.entries) :
             v.entries[i].key.k # "string" \/ Unsupported(v.entries[i].val)
    ELSE IF v.k = "strmap" THEN \E i \in 1..Len(v.entries) : Unsupported(v.entries[i].val)
    ELSE v.k \notin {"bool", "float64", "int", "string"}

\* The keys of a raw map itself that are not strings.
BadKeys(v) ==
    IF v.k = "rawmap"
    THEN {v.entries[i].key : i \in {j \in 1..Len(v.entries) : v.entries[j].key.k # "string"}}
    ELSE {}

\* The children of a raw list or map that have no canonical form; of a map,
\* those under a string key.
BadChildren(v) ==
    IF v.k = "rawlist"
    THEN {v.items[i] : i \in {j \in 1..Len(v.items) : Unsupported(v.items[j])}}
    ELSE IF v.k = "rawmap"
    THEN {v.entries[i].val : i \in {j \in 1..Len(v.entries) :
              v.entries[j].key.k = "string" /\ Unsupported(v.entries[j].val)}}
    ELSE IF v.k = "strmap"
    THEN {v.entries[i].val : i \in {j \in 1..Len(v.entries) : Unsupported(v.entries[j].val)}}
    ELSE {}

ValueErrors == {"UnsupportedMapValue", "UnsupportedListItem"}

\* What holds of a parse whatever the order of the map's entries: a document
\* with a key that is not a string, at any depth, is not parsed (no key is
\* coerced), and the keys of the tree are the keys of the document.
StringKeysOnly ==
    /\ (last.op = "Parse" /\ \E key \in RawKeysOf(last.arg) : key.k # "string")
       => last.res.kind # "ok"
    /\ Parsed => TreeKeysOf(Tree(heap, cfg)) = {key.s : key \in RawKeysOf(last.arg)}

\* C12 as stated: a raw map with a key that is not a string fails with the
\* unsupported-key error, any other list or map with a child that fails
\* fails with an unsupported-value error, and a tree has string keys only.
C12_KeyErrorAlways ==
    /\ last.op = "Parse" =>
           /\ BadKeys(last.arg) # {} => last.res.kind = "UnsupportedMapKey"
           /\ (BadKeys(last.arg) = {} /\ BadChildren(last.arg) # {})
              => last.res.kind \in ValueErrors
    /\ StringKeysOnly

\* C12: a raw map with a key that is not a string fails: with the
\* unsupported-key error of such a key, or, when the map also has a string
\* key whose value fails, possibly with the unsupported-value error of that
\* value (the entries are visited in no fixed order).  A list or map without
\* such a key and with a child that fails fails with the unsupported-value
\* error of such a child, a list with that of its first one.  No key is
\* coerced: a tree has the string keys of the document and no other.
C12_NoKeyCoercion ==
    /\ last.op = "Parse" =>
           /\ BadKeys(last.arg) # {} =>
                  \/ /\ last.res.kind = "UnsupportedMapKey"
                     /\ last.res.what \in BadKeys(last.arg)
                  \/ /\ last.res.kind = "UnsupportedMapValue"
                     /\ last.res.what \in BadChildren(last.arg)
           /\ (BadKeys(last.arg) = {} /\ BadChildren(last.arg) # {}) =>
                  /\ last.res.kind \in ValueErrors
                  /\ last.res.what \in BadChildren(last.arg)
                  /\ last.arg.k = "rawlist" =>
                         \E i \in 1..Len(last.arg.items) :
                             /\ last.res = UnsupportedListItem(last.arg.items[i])
                             /\ \A j \in 1..(i - 1) : ~Unsupported(last.arg.items[j])
           /\ (BadKeys(last.arg) = {} /\ BadChildren(last.arg) = {}
                  /\ last.arg.k \in {"rawlist", "rawmap", "strmap"})
              => last.res.kind = "ok"
    /\ StringKeysOnly

\* The map {1: "a", "a": nil} fails with the error of the value nil.
C12_Witness ==
    /\ last.op = "Parse"
    /\ last.arg = RawMap(<<Entry(IntV(1), StrV(sA)), Entry(StrV(sA), Nil)>>)
    /\ last.res = UnsupportedMapValue(Nil)

Errors == {"NotFound", "InvalidPath", "TypeMismatch"}

\* C13: a typed accessor of EnvConfig looks up the bare path on every error
\* of the lookup of "<Env>.<path>", the error of a node of the wrong type
\* included, and returns what the bare lookup returns; when both fail the
\* caller gets the error of the bare lookup, never that of the first.
C13_BareErrorReported ==
    last.op \in EnvOps =>
        LET e == TypedLookup(last.op, heap, cfg, EnvPath(env, last.path))
            b == TypedLookup(last.op, heap, cfg, last.path)
        IN  /\ e.kind = "TypeMismatch" => last.res = b
            /\ (e.kind \in Errors /\ b.kind \in Errors) =>
                   /\ last.res = b
                   /\ e # b => last.res # e

\* On DocEnv with the environment "dev", Bool("n") fails twice, on the
\* string at dev.n and on the int at n, and the error names the int.
C13_Witness ==
    /\ last.op = "Bool" /\ heap = DocEnv.heap /\ env = sDev /\ last.path = sN
    /\ ConfigBool(heap, cfg, EnvPath(env, sN)) = typeMismatch("bool", StrV(<<"a", "b", "c">>))
    /\ last.res = typeMismatch("bool", IntV(2))

====
